---------------------------- MODULE Spec2Model ----------------------------
(***************************************************************************)
(* A model of Quirky.py (typing quirks: ordered regular-expression         *)
(* substitution chains, and their XML form), as run by Python 3.           *)
(*                                                                         *)
(* Python objects live in a heap: every TypingQuirk and every Rule is an   *)
(* index into a sequence, every Python list owned by a TypingQuirk is an   *)
(* index into `lists`, and a Rule's class attributes (Quirky.py:117-118)   *)
(* are kept apart from the instances' own attribute dictionaries, as       *)
(* Python keeps them.  A Python str is a sequence of one-character         *)
(* strings, "" is << >>.  A value passed as an argument carries its        *)
(* Python type in the field `type`.                                        *)
(***************************************************************************)
EXTENDS Integers, Sequences, FiniteSets, TLC

VARIABLES
  ruleClass,   \* the attributes of class Rule itself: regexp, replacewith
  rules,       \* rules[r]: the instance dictionary of Rule object r
  quirks,      \* quirks[q]: the attributes of TypingQuirk object q
  lists,       \* lists[l]: the items of Python list object l
  call,        \* the last completed call: operation, arguments, outcome
  appended     \* per TypingQuirk: the arguments of its successful add_* calls

vars == <<ruleClass, rules, quirks, lists, call, appended>>

-----------------------------------------------------------------------------
(* Bounds *)

MaxItems == 3     \* most items the lists of the heap hold together
MaxArgLen == 2    \* longest list passed to add_alias / add_*_rule

-----------------------------------------------------------------------------
(* Python values *)

PyStr(s) == [type |-> "str", s |-> s]
PyInt(n) == [type |-> "int", n |-> n]
PyRule(r) == [type |-> "Rule", id |-> r]
PyQuirk(q) == [type |-> "TypingQuirk", id |-> q]
PyList(items) == [type |-> "list", items |-> items]
PyNone == [type |-> "NoneType"]

SeqsUpTo(S, n) == UNION {[1..k -> S] : k \in 0..n}

\* The outcome of a call: the heap it leaves, the exception it raised (or
\* "none"), the exception's message and the value it returned.
Return(h, v) == [heap |-> h, exc |-> "none", msg |-> "", ret |-> v]
Raise(h, e, m) == [heap |-> h, exc |-> e, msg |-> m, ret |-> PyNone]

Heap == [ruleClass |-> ruleClass, rules |-> rules, quirks |-> quirks, lists |-> lists]

EmptyHeap ==
  [ruleClass |-> [regexp |-> << >>, replacewith |-> << >>],
   rules |-> << >>, quirks |-> << >>, lists |-> << >>]

\* obj.attr = v on an instance dictionary d
SetAttr(d, attr, v) ==
  [k \in (DOMAIN d) \cup {attr} |-> IF k = attr THEN v ELSE d[k]]

-----------------------------------------------------------------------------
(* class Rule *)

\* Rule(): a new instance with no attribute of its own
Rule_new(h) ==
  Return([h EXCEPT !.rules = Append(@, << >>)], Len(h.rules) + 1)

\* a setter that stores on the class instead of on the instance
set_regexp_on_class(h, self, regexp) ==
  IF regexp.type = "str"
  THEN Return([h EXCEPT !.ruleClass.regexp = regexp.s], PyNone)
  ELSE Raise(h, "TypeError", "regexp must be a string.")

set_regexp(h, self, regexp) ==
  IF regexp.type = "str"
  THEN Return([h EXCEPT !.rules[self] = SetAttr(@, "regexp", regexp.s)], PyNone)
  ELSE Raise(h, "TypeError", "regexp must be a string.")

set_replacer(h, self, regexp) ==
  IF regexp.type = "str"
  THEN Return([h EXCEPT !.rules[self] = SetAttr(@, "replacewith", regexp.s)], PyNone)
  ELSE Raise(h, "TypeError", "regexp must be a string.")

\* self.regexp: the instance's attribute, else the class's
get_regexp(h, self) ==
  IF "regexp" \in DOMAIN h.rules[self]
  THEN h.rules[self]["regexp"] ELSE h.ruleClass.regexp

get_replacer(h, self) ==
  IF "replacewith" \in DOMAIN h.rules[self]
  THEN h.rules[self]["replacewith"] ELSE h.ruleClass.replacewith

-----------------------------------------------------------------------------
(* class TypingQuirk *)

\* an __init__ that leaves the three lists to the class: every instance
\* then refers to the same three list objects
TypingQuirk_init_shared(h) ==
  LET first == IF Len(h.quirks) = 0 THEN Len(h.lists) ELSE h.quirks[1].aliases - 1
      ls == IF Len(h.quirks) = 0 THEN h.lists \o << << >>, << >>, << >> >> ELSE h.lists
  IN Return([h EXCEPT !.lists = ls,
                      !.quirks = Append(@, [name |-> << >>, color |-> << >>,
                                            aliases |-> first + 1,
                                            direct |-> first + 2,
                                            inverse |-> first + 3])],
            Len(h.quirks) + 1)

\* TypingQuirk(): name and color "", three new empty lists
TypingQuirk_init(h) ==
  LET n == Len(h.lists)
  IN Return([h EXCEPT !.lists = @ \o << << >>, << >>, << >> >>,
                      !.quirks = Append(@, [name |-> << >>, color |-> << >>,
                                            aliases |-> n + 1,
                                            direct |-> n + 2,
                                            inverse |-> n + 3])],
            Len(h.quirks) + 1)

set_quirk_name(h, self, name) ==
  IF name.type = "str"
  THEN Return([h EXCEPT !.quirks[self].name = name.s], PyNone)
  ELSE Raise(h, "TypeError", "name must be a string.")

set_color(h, self, color) ==
  IF color.type = "str"
  THEN Return([h EXCEPT !.quirks[self].color = color.s], PyNone)
  ELSE Raise(h, "TypeError", "color must be a string.")

\* list.extend / list.append on list object l
ListExtend(h, l, items) == [h EXCEPT !.lists[l] = @ \o items]
ListAppend(h, l, item) == [h EXCEPT !.lists[l] = Append(@, item)]

\* the items of a list argument, as they are stored
StrsOf(items) == [i \in DOMAIN items |-> items[i].s]
RulesOf(items) == [i \in DOMAIN items |-> items[i].id]

\* the longest prefix of items whose elements all have type t
RECURSIVE PrefixOfType(_, _)
PrefixOfType(items, t) ==
  IF items = << >> \/ Head(items).type # t THEN << >>
  ELSE <<Head(items)>> \o PrefixOfType(Tail(items), t)

\* an add_alias that checks each element as it appends it
add_alias_checking_late(h, self, alias) ==
  IF alias.type = "list"
  THEN LET good == PrefixOfType(alias.items, "str")
           h2 == ListExtend(h, h.quirks[self].aliases, StrsOf(good))
       IN IF Len(good) = Len(alias.items)
          THEN Return(h2, PyNone)
          ELSE Raise(h2, "TypeError", "list must contain only strings.")
  ELSE IF alias.type = "str"
  THEN Return(ListAppend(h, h.quirks[self].aliases, alias.s), PyNone)
  ELSE Raise(h, "TypeError", "alias must be string or list of strings.")

add_alias(h, self, alias) ==
  IF alias.type = "list"
  THEN IF \A i \in DOMAIN alias.items : alias.items[i].type = "str"
       THEN Return(ListExtend(h, h.quirks[self].aliases, StrsOf(alias.items)), PyNone)
       ELSE Raise(h, "TypeError", "list must contain only strings.")
  ELSE IF alias.type = "str"
  THEN Return(ListAppend(h, h.quirks[self].aliases, alias.s), PyNone)
  ELSE Raise(h, "TypeError", "alias must be string or list of strings.")

\* an add_direct_rule that puts new rules in front of the old ones
add_direct_rule_in_front(h, self, rule) ==
  IF rule.type = "list"
  THEN IF \A i \in DOMAIN rule.items : rule.items[i].type = "Rule"
       THEN Return([h EXCEPT !.lists[h.quirks[self].direct] = RulesOf(rule.items) \o @],
                   PyNone)
       ELSE Raise(h, "TypeError", "list must contain only Rule instances.")
  ELSE IF rule.type = "Rule"
  THEN Return([h EXCEPT !.lists[h.quirks[self].direct] = <<rule.id>> \o @], PyNone)
  ELSE Raise(h, "TypeError",
             "this method takes only Rule class instances or lists of Rule class instances.")

add_direct_rule(h, self, rule) ==
  IF rule.type = "list"
  THEN IF \A i \in DOMAIN rule.items : rule.items[i].type = "Rule"
       THEN Return(ListExtend(h, h.quirks[self].direct, RulesOf(rule.items)), PyNone)
       ELSE Raise(h, "TypeError", "list must contain only Rule instances.")
  ELSE IF rule.type = "Rule"
  THEN Return(ListAppend(h, h.quirks[self].direct, rule.id), PyNone)
  ELSE Raise(h, "TypeError",
             "this method takes only Rule class instances or lists of Rule class instances.")

add_inverse_rule(h, self, rule) ==
  IF rule.type = "list"
  THEN IF \A i \in DOMAIN rule.items : rule.items[i].type = "Rule"
       THEN Return(ListExtend(h, h.quirks[self].inverse, RulesOf(rule.items)), PyNone)
       ELSE Raise(h, "TypeError", "list must contain only Rule instances.")
  ELSE IF rule.type = "Rule"
  THEN Return(ListAppend(h, h.quirks[self].inverse, rule.id), PyNone)
  ELSE Raise(h, "TypeError",
             "this method takes only Rule class instances or lists of Rule class instances.")

get_name(h, self) == h.quirks[self].name
get_color(h, self) == h.quirks[self].color
get_aliases(h, self) == h.lists[h.quirks[self].aliases]
get_direct_rules(h, self) == h.lists[h.quirks[self].direct]
get_inverse_rules(h, self) == h.lists[h.quirks[self].inverse]

-----------------------------------------------------------------------------
(* re.sub, for the patterns and templates the model draws: a pattern is a  *)
(* sequence of literal characters and "." (any character but a newline), a *)
(* replacement template is a sequence of literal characters.               *)

MatchesAt(pattern, string, i) ==
  /\ i + Len(pattern) - 1 <= Len(string)
  /\ \A k \in 1..Len(pattern) :
       IF pattern[k] = "." THEN string[i + k - 1] # "\n"
       ELSE pattern[k] = string[i + k - 1]

\* the scan of re.sub from position i on: the leftmost match is replaced and
\* the scan goes on behind it; the empty pattern matches before every
\* character and at the end
RECURSIVE SubFrom(_, _, _, _)
SubFrom(pattern, repl, string, i) ==
  IF i > Len(string) THEN (IF pattern = << >> THEN repl ELSE << >>)
  ELSE IF MatchesAt(pattern, string, i)
  THEN IF pattern = << >>
       THEN repl \o <<string[i]>> \o SubFrom(pattern, repl, string, i + 1)
       ELSE repl \o SubFrom(pattern, repl, string, i + Len(pattern))
  ELSE <<string[i]>> \o SubFrom(pattern, repl, string, i + 1)

\* the first position from i on where the pattern matches, 0 when none
RECURSIVE FirstMatch(_, _, _)
FirstMatch(pattern, string, i) ==
  IF i > Len(string) + 1 THEN 0
  ELSE IF MatchesAt(pattern, string, i) THEN i
  ELSE FirstMatch(pattern, string, i + 1)

\* a substitution that replaces the first match only
re_sub_first_match_only(pattern, repl, string) ==
  LET i == FirstMatch(pattern, string, 1)
  IN IF i = 0 THEN string
     ELSE SubSeq(string, 1, i - 1) \o repl
          \o SubSeq(string, i + Len(pattern), Len(string))

\* re.sub(pattern, repl, string)
re_sub(pattern, repl, string) == SubFrom(pattern, repl, string, 1)

\* the loop of quirkify / dequirkify over rule list `rulelist`, at its i-th rule
RECURSIVE ApplyFrom(_, _, _, _)
ApplyFrom(h, rulelist, i, string) ==
  IF i > Len(rulelist) THEN string
  ELSE ApplyFrom(h, rulelist, i + 1,
                 re_sub(get_regexp(h, rulelist[i]), get_replacer(h, rulelist[i]), string))

\* a loop that gives every rule the caller's text and keeps the last result
RECURSIVE ApplyEachToInput(_, _, _, _, _)
ApplyEachToInput(h, rulelist, i, input, string) ==
  IF i > Len(rulelist) THEN string
  ELSE ApplyEachToInput(h, rulelist, i + 1, input,
                        re_sub(get_regexp(h, rulelist[i]), get_replacer(h, rulelist[i]), input))

quirkify_not_cumulative(h, self, string) ==
  IF string.type = "str"
  THEN Return(h, PyStr(ApplyEachToInput(h, h.lists[h.quirks[self].direct], 1,
                                        string.s, string.s)))
  ELSE Raise(h, "TypeError", "this method takes only strings.")

quirkify(h, self, string) ==
  IF string.type = "str"
  THEN Return(h, PyStr(ApplyFrom(h, h.lists[h.quirks[self].direct], 1, string.s)))
  ELSE Raise(h, "TypeError", "this method takes only strings.")

dequirkify(h, self, string) ==
  IF string.type = "str"
  THEN Return(h, PyStr(ApplyFrom(h, h.lists[h.quirks[self].inverse], 1, string.s)))
  ELSE Raise(h, "TypeError", "this method takes only strings.")

-----------------------------------------------------------------------------
(* Module functions that build objects *)

\* the end of a function that made an object: the object is returned, or the
\* exception leaves the function, the new objects are dropped with its frame
\* and the heap is as it was at the call
Returning(h, r, object) ==
  IF r.exc # "none" THEN Raise(h, r.exc, r.msg) ELSE Return(r.heap, object)

\* A statement after a call that raised does not run: the exception goes on.
\* created_quirk.set_color(color), after the call before it
SetColorAfter(r, self, color) ==
  IF r.exc # "none" THEN r ELSE set_color(r.heap, self, color)

\* created_quirk.add_alias(aliases), after the call before it
AddAliasAfter(r, self, aliases) ==
  IF r.exc # "none" THEN r ELSE add_alias(r.heap, self, aliases)

\* created_quirk.add_direct_rule(direct), after the call before it
AddDirectRuleAfter(r, self, direct) ==
  IF r.exc # "none" THEN r ELSE add_direct_rule(r.heap, self, direct)

\* created_quirk.add_inverse_rule(inverse), after the call before it
AddInverseRuleAfter(r, self, inverse) ==
  IF r.exc # "none" THEN r ELSE add_inverse_rule(r.heap, self, inverse)

\* the calls of create_quirk on the TypingQuirk it created
CallsOnCreated(created, name, color, aliases, direct, inverse) ==
  AddInverseRuleAfter(
    AddDirectRuleAfter(
      AddAliasAfter(
        SetColorAfter(set_quirk_name(created.heap, created.ret, name),
                      created.ret, color),
        created.ret, aliases),
      created.ret, direct),
    created.ret, inverse)

\* create_quirk with verbose = False
create_quirk(h, name, color, aliases, direct, inverse) ==
  Returning(h,
            CallsOnCreated(TypingQuirk_init(h), name, color, aliases, direct, inverse),
            TypingQuirk_init(h).ret)

\* the second half of create_rule, after set_regexp: replacewith is checked,
\* then created_rule.set_replacer(replacewith)
SetReplacerAfter(r, self, replacewith) ==
  IF r.exc # "none" THEN r
  ELSE IF replacewith.type # "str"
  THEN Raise(r.heap, "TypeError",
             "the regular expression to replace with must be a string.")
  ELSE set_replacer(r.heap, self, replacewith)

\* the statements of create_rule on the Rule it created: regexp is checked
\* and set before replacewith is looked at
SettersOnCreated(created, regexp, replacewith) ==
  IF regexp.type # "str"
  THEN Raise(created.heap, "TypeError",
             "the regular expression to look for must be a string.")
  ELSE SetReplacerAfter(set_regexp(created.heap, created.ret, regexp),
                        created.ret, replacewith)

create_rule(h, regexp, replacewith) ==
  Returning(h, SettersOnCreated(Rule_new(h), regexp, replacewith), Rule_new(h).ret)

-----------------------------------------------------------------------------
(* Reading a document.  ElementTree.fromstring gives the element tree of   *)
(* the text; the tree is a sequence of elements in document order, each    *)
(* with its tag, its attributes (a dictionary of strings) and its depth    *)
(* below the root, which is element 1 at depth 0.                          *)

\* element j lies in the subtree of element i (i itself included): what
\* element.iter() walks, in document order
InSubtree(tree, i, j) ==
  /\ i <= j
  /\ \A k \in (i + 1)..j : tree[k].depth > tree[i].depth

\* the indices of a set of elements, in document order
RECURSIVE InOrder(_)
InOrder(S) ==
  IF S = {} THEN << >>
  ELSE LET m == CHOOSE x \in S : \A y \in S : x <= y
       IN <<m>> \o InOrder(S \ {m})

\* list(element.iter(tag = tag)) for element i
Iter(tree, i, tag) ==
  InOrder({j \in DOMAIN tree : InSubtree(tree, i, j) /\ tree[j].tag = tag})

\* the first key of `keys` that attrib lacks, "" when it has them all
FirstMissing(attrib, keys) ==
  IF \A k \in DOMAIN keys : keys[k] \in DOMAIN attrib THEN ""
  ELSE keys[CHOOSE k \in DOMAIN keys :
              /\ keys[k] \notin DOMAIN attrib
              /\ \A l \in 1..(k - 1) : keys[l] \in DOMAIN attrib]

\* the loop over the alias elements: their value attributes, or KeyError
RECURSIVE AliasesFrom(_, _, _, _)
AliasesFrom(h, tree, elems, aliases) ==
  IF elems = << >> THEN Return(h, aliases)
  ELSE IF "value" \notin DOMAIN tree[Head(elems)].attrib
  THEN Raise(h, "KeyError", "value")
  ELSE AliasesFrom(h, tree, Tail(elems),
                   Append(aliases, PyStr(tree[Head(elems)].attrib["value"])))

\* the loop over the quirk (or dequirk) elements: a Rule made by create_rule
\* from each element's from and to attributes, or KeyError.  RulesAfter is
\* the loop after create_rule returned r for one element.
RECURSIVE RulesFrom(_, _, _, _)
RECURSIVE RulesAfter(_, _, _, _)
RulesFrom(h, tree, elems, made) ==
  IF elems = << >> THEN Return(h, made)
  ELSE IF FirstMissing(tree[Head(elems)].attrib, <<"from", "to">>) # ""
  THEN Raise(h, "KeyError", FirstMissing(tree[Head(elems)].attrib, <<"from", "to">>))
  ELSE RulesAfter(create_rule(h, PyStr(tree[Head(elems)].attrib["from"]),
                              PyStr(tree[Head(elems)].attrib["to"])),
                  tree, Tail(elems), made)

RulesAfter(r, tree, elems, made) ==
  RulesFrom(r.heap, tree, elems, Append(made, PyRule(r.ret)))

\* the end of the loop body of create_quirks_list: create_quirk on what the
\* three inner loops read (a: aliases, d: direct rules, v: inverse rules),
\* unless one of them raised
QuirkOfParts(name, color, a, d, v) ==
  IF a.exc # "none" THEN a
  ELSE IF d.exc # "none" THEN d
  ELSE IF v.exc # "none" THEN v
  ELSE create_quirk(v.heap, PyStr(name), PyStr(color),
                    PyList(a.ret), PyList(d.ret), PyList(v.ret))

\* the three inner loops, the dequirk loop on the heap the quirk loop left
QuirkOfChildren(tree, i, name, color, a, d) ==
  QuirkOfParts(name, color, a, d,
               RulesFrom(d.heap, tree, Iter(tree, i, "dequirk"), << >>))

\* a loop body that reads a missing name or color as ""
QuirkOfElementDefaulting(h, tree, i) ==
  QuirkOfChildren(tree, i,
                  IF "name" \in DOMAIN tree[i].attrib THEN tree[i].attrib["name"] ELSE << >>,
                  IF "color" \in DOMAIN tree[i].attrib THEN tree[i].attrib["color"] ELSE << >>,
                  AliasesFrom(h, tree, Iter(tree, i, "alias"), << >>),
                  RulesFrom(h, tree, Iter(tree, i, "quirk"), << >>))

\* the body of the loop of create_quirks_list for rule element i: the
\* TypingQuirk made of it, or KeyError
QuirkOfElement(h, tree, i) ==
  IF FirstMissing(tree[i].attrib, <<"name", "color">>) # ""
  THEN Raise(h, "KeyError", FirstMissing(tree[i].attrib, <<"name", "color">>))
  ELSE QuirkOfChildren(tree, i, tree[i].attrib["name"], tree[i].attrib["color"],
                       AliasesFrom(h, tree, Iter(tree, i, "alias"), << >>),
                       RulesFrom(h, tree, Iter(tree, i, "quirk"), << >>))

\* the loop of create_quirks_list over the rule elements still to be read.
\* QuirksAfter is the loop after the body returned (or raised) r for one
\* element.
RECURSIVE QuirksFrom(_, _, _, _)
RECURSIVE QuirksAfter(_, _, _, _)
QuirksFrom(h, tree, elems, quirklist) ==
  IF elems = << >> THEN Return(h, PyList(quirklist))
  ELSE QuirksAfter(QuirkOfElement(h, tree, Head(elems)), tree, Tail(elems), quirklist)

QuirksAfter(r, tree, elems, quirklist) ==
  IF r.exc # "none" THEN r
  ELSE QuirksFrom(r.heap, tree, elems, Append(quirklist, PyQuirk(r.ret)))

\* the end of a function that made objects and returns what r returned: an
\* exception leaves the function, the new objects are dropped with its frame
\* and the heap is as it was at the call
Leaving(h, r) == IF r.exc # "none" THEN Raise(h, r.exc, r.msg) ELSE r

\* create_quirks_list on the text whose element tree is `tree`, verbose = False
create_quirks_list(h, tree) ==
  Leaving(h, QuirksFrom(h, tree, Iter(tree, 1, "rule"), << >>))

\* A Python dict: its keys in insertion order, and their values
PyDict(keys, vals) == [type |-> "dict", keys |-> keys, vals |-> vals]

\* an assignment that keeps the value a key already has
DictSetDefault(d, key, val) ==
  IF \E k \in DOMAIN d.keys : d.keys[k] = key
  THEN d
  ELSE PyDict(Append(d.keys, key), Append(d.vals, val))

\* d[key] = val
DictSet(d, key, val) ==
  IF \E k \in DOMAIN d.keys : d.keys[k] = key
  THEN PyDict(d.keys, [k \in DOMAIN d.keys |-> IF d.keys[k] = key THEN val ELSE d.vals[k]])
  ELSE PyDict(Append(d.keys, key), Append(d.vals, val))

\* the loop `for quirk in quirklist: quirk_dictionary[quirk.get_name()] = quirk`
RECURSIVE DictFrom(_, _, _)
DictFrom(h, items, quirk_dictionary) ==
  IF items = << >> THEN Return(h, quirk_dictionary)
  ELSE IF Head(items).type # "TypingQuirk"
  THEN Raise(h, "AttributeError",
             "'" \o Head(items).type \o "' object has no attribute 'get_name'")
  ELSE DictFrom(h, Tail(items),
                DictSet(quirk_dictionary, get_name(h, Head(items).id), Head(items)))

\* the dictionary of the list create_quirks_list returned, unless it raised
DictOfList(quirklist) ==
  IF quirklist.exc # "none" THEN quirklist
  ELSE DictFrom(quirklist.heap, quirklist.ret.items, PyDict(<< >>, << >>))

create_quirks_dict(h, tree) == DictOfList(create_quirks_list(h, tree))

create_quirks_dict_from_quirks_list(h, quirklist) ==
  DictFrom(h, quirklist.items, PyDict(<< >>, << >>))

\* open(filename, "r").read(): the files there are, `files`, give each name
\* the element tree of its text; a name that is not there raises
\* FileNotFoundError.  A file name is kept as one string.
OpenRead(h, files, filename) ==
  IF filename \in DOMAIN files THEN Return(h, files[filename])
  ELSE Raise(h, "FileNotFoundError",
             "[Errno 2] No such file or directory: '" \o filename \o "'")

\* create_quirks_list on what was read, unless reading raised
ListOfRead(read) ==
  IF read.exc # "none" THEN read ELSE create_quirks_list(read.heap, read.ret)

\* create_quirks_dict on what was read, unless reading raised
DictOfRead(read) ==
  IF read.exc # "none" THEN read ELSE create_quirks_dict(read.heap, read.ret)

create_quirks_list_from_file(h, files, filename) ==
  ListOfRead(OpenRead(h, files, filename))

create_quirks_dict_from_file(h, files, filename) ==
  DictOfRead(OpenRead(h, files, filename))

\* source.values() for a dictionary, the list itself otherwise
ValuesOf(source) == IF source.type = "dict" THEN source.vals ELSE source.items

\* all(isinstance(item, TypingQuirk) for item in source)
AllTypingQuirks(items) == \A i \in DOMAIN items : items[i].type = "TypingQuirk"

\* the sub-elements with one attribute, one for each value
SubElements1(tag, key, values) ==
  [k \in DOMAIN values |-> [tag |-> tag, attrib |-> key :> values[k], depth |-> 2]]

\* the quirk or dequirk sub-elements, one for each Rule
SubElementsOfRules(h, tag, rulelist) ==
  [k \in DOMAIN rulelist |->
     [tag |-> tag,
      attrib |-> ("from" :> get_regexp(h, rulelist[k])) @@ ("to" :> get_replacer(h, rulelist[k])),
      depth |-> 2]]

\* the rule element of one TypingQuirk, with its sub-elements
RuleElementOf(h, item) ==
  <<[tag |-> "rule",
     attrib |-> ("name" :> get_name(h, item)) @@ ("color" :> get_color(h, item)),
     depth |-> 1]>>
    \o SubElements1("alias", "value", get_aliases(h, item))
    \o SubElementsOfRules(h, "quirk", get_direct_rules(h, item))
    \o SubElementsOfRules(h, "dequirk", get_inverse_rules(h, item))

\* the loop `for item in source` below doc_element
RECURSIVE RuleElementsOf(_, _)
RuleElementsOf(h, items) ==
  IF items = << >> THEN << >>
  ELSE RuleElementOf(h, Head(items).id) \o RuleElementsOf(h, Tail(items))

\* doc_element and what the loop builds below it
DocElement(h, items) ==
  <<[tag |-> "document", attrib |-> << >>, depth |-> 0]>> \o RuleElementsOf(h, items)

\* The text of a document is kept by the element tree it is the text of,
\* whether it starts with the XML declaration, and its type: str or bytes.
XmlText(type, declared, doc) == [type |-> type, declared |-> declared, doc |-> doc]

\* ElementTree.tostring(doc_element, encoding = "utf-8"): bytes
tostring(doc) == XmlText("bytes", FALSE, doc)

\* "<?xml version='1.0' encoding='utf-8'?>" + right
DeclarationPlus(h, right) ==
  IF right.type = "str" THEN Return(h, XmlText("str", TRUE, right.doc))
  ELSE Raise(h, "TypeError", "can only concatenate str (not \"bytes\") to str")

\* the return of xml_string, through minidom's toprettyxml when nice
ReturnXml(xml_string, nice) ==
  IF xml_string.exc # "none" THEN xml_string
  ELSE IF nice THEN Return(xml_string.heap, XmlText("bytes", TRUE, xml_string.ret.doc))
  ELSE xml_string

quirks_to_xml(h, source, nice) ==
  IF AllTypingQuirks(ValuesOf(source))
  THEN ReturnXml(DeclarationPlus(h, tostring(DocElement(h, ValuesOf(source)))), nice)
  ELSE Raise(h, "TypeError", "source argument must contain only TypingQuirk instances")

-----------------------------------------------------------------------------
(* Calls on the objects of the heap *)

SetHeap(h) ==
  /\ ruleClass' = h.ruleClass
  /\ rules' = h.rules
  /\ quirks' = h.quirks
  /\ lists' = h.lists

HeapIs(h) ==
  /\ ruleClass = h.ruleClass
  /\ rules = h.rules
  /\ quirks = h.quirks
  /\ lists = h.lists

RECURSIVE SumLen(_)
SumLen(ls) == IF ls = << >> THEN 0 ELSE Len(Head(ls)) + SumLen(Tail(ls))

\* the bound on the heap: room for n more list items
Room(n) == SumLen(lists) + n <= MaxItems

Strs == {<<"a">>, <<"b">>}

\* what a caller may pass: strings, a number, the Rule objects of the heap,
\* and lists of those
Scalars == {PyStr(s) : s \in Strs} \cup {PyInt(5)} \cup {PyRule(r) : r \in DOMAIN rules}
Args == Scalars \cup {PyList(items) : items \in SeqsUpTo(Scalars, MaxArgLen)}

\* a scalar argument counts as the one-element list of itself
Items(arg) == IF arg.type = "list" THEN arg.items ELSE <<arg>>

NoCall == [op |-> "none"]
NoneAppended == [aliases |-> << >>, direct |-> << >>, inverse |-> << >>]

AddAliasFrom(S) ==
  \E q \in DOMAIN quirks, alias \in S :
    /\ Room(Len(Items(alias)))
    /\ LET r == add_alias(Heap, q, alias)
       IN /\ SetHeap(r.heap)
          /\ call' = [op |-> "add_alias", self |-> q, arg |-> alias,
                      exc |-> r.exc, msg |-> r.msg]
          /\ appended' = IF r.exc = "none"
                         THEN [appended EXCEPT ![q].aliases = @ \o StrsOf(Items(alias))]
                         ELSE appended

AddDirectRuleFrom(S) ==
  \E q \in DOMAIN quirks, rule \in S :
    /\ Room(Len(Items(rule)))
    /\ LET r == add_direct_rule(Heap, q, rule)
       IN /\ SetHeap(r.heap)
          /\ call' = [op |-> "add_direct_rule", self |-> q, arg |-> rule,
                      exc |-> r.exc, msg |-> r.msg]
          /\ appended' = IF r.exc = "none"
                         THEN [appended EXCEPT ![q].direct = @ \o RulesOf(Items(rule))]
                         ELSE appended

AddInverseRuleFrom(S) ==
  \E q \in DOMAIN quirks, rule \in S :
    /\ Room(Len(Items(rule)))
    /\ LET r == add_inverse_rule(Heap, q, rule)
       IN /\ SetHeap(r.heap)
          /\ call' = [op |-> "add_inverse_rule", self |-> q, arg |-> rule,
                      exc |-> r.exc, msg |-> r.msg]
          /\ appended' = IF r.exc = "none"
                         THEN [appended EXCEPT ![q].inverse = @ \o RulesOf(Items(rule))]
                         ELSE appended

AddAlias == AddAliasFrom(Args)
AddDirectRule == AddDirectRuleFrom(Args)
AddInverseRule == AddInverseRuleFrom(Args)

\* q = TypingQuirk(); r1 = Rule(); r2 = Rule()
OneQuirkTwoRules == Rule_new(Rule_new(TypingQuirk_init(EmptyHeap).heap).heap).heap

Init ==
  /\ HeapIs(OneQuirkTwoRules)
  /\ call = NoCall
  /\ appended = [q \in DOMAIN OneQuirkTwoRules.quirks |-> NoneAppended]

Next ==
  \/ AddAlias
  \/ AddDirectRule
  \/ AddInverseRule

Spec == Init /\ [][Next]_vars

-----------------------------------------------------------------------------
(* Claims about the add_* calls, under Spec *)

IsAdder(op) == op \in {"add_alias", "add_direct_rule", "add_inverse_rule"}

\* the item type an adder accepts
Accepts(op) == IF op = "add_alias" THEN "str" ELSE "Rule"

\* the argument holds an element (or is a scalar) of a type the adder rejects
Offending(op, arg) == \E i \in DOMAIN Items(arg) : Items(arg)[i].type # Accepts(op)

\* what the getters of TypingQuirk q show
Contents(q) ==
  [name |-> get_name(Heap, q), color |-> get_color(Heap, q),
   aliases |-> get_aliases(Heap, q),
   direct |-> get_direct_rules(Heap, q),
   inverse |-> get_inverse_rules(Heap, q)]

C4_Raises == IsAdder(call.op) /\ Offending(call.op, call.arg) => call.exc = "TypeError"

C4_Unchanged ==
  IsAdder(call'.op) /\ Offending(call'.op, call'.arg)
    => \A q \in DOMAIN quirks : Contents(q)' = Contents(q)

\* C4: an add_alias / add_direct_rule / add_inverse_rule call whose argument
\* holds an element of the wrong type (anywhere in a list, or as the scalar
\* itself) raises TypeError and leaves every list of the TypingQuirk as it was.
C4_FailedAddLeavesQuirkUnchanged == [] C4_Raises /\ [][C4_Unchanged]_vars

\* a list whose last element offends was refused by a TypingQuirk that
\* already held aliases
C4_Witness ==
  /\ call.op = "add_alias"
  /\ call.arg.type = "list"
  /\ Len(call.arg.items) = 2
  /\ call.arg.items[1].type = "str"
  /\ call.arg.items[2].type = "int"
  /\ call.exc = "TypeError"
  /\ Len(get_aliases(Heap, call.self)) > 0

IsPrefix(s, t) == Len(s) <= Len(t) /\ SubSeq(t, 1, Len(s)) = s

C9_Concatenation ==
  \A q \in DOMAIN quirks :
    /\ get_aliases(Heap, q) = appended[q].aliases
    /\ get_direct_rules(Heap, q) = appended[q].direct
    /\ get_inverse_rules(Heap, q) = appended[q].inverse

C9_Prefix ==
  \A q \in DOMAIN quirks :
    /\ IsPrefix(get_aliases(Heap, q), get_aliases(Heap, q)')
    /\ IsPrefix(get_direct_rules(Heap, q), get_direct_rules(Heap, q)')
    /\ IsPrefix(get_inverse_rules(Heap, q), get_inverse_rules(Heap, q)')

\* C9: after any sequence of add_* calls, each of a TypingQuirk's three lists
\* is the concatenation, in call order, of the arguments of the successful
\* calls for that list, and every call leaves the old contents as a prefix of
\* the new.
C9_AppendOnly == [] C9_Concatenation /\ [][C9_Prefix]_vars

\* a TypingQuirk holds two different rules from its successful calls, and
\* the last call on it failed
C9_Witness ==
  /\ IsAdder(call.op)
  /\ call.exc = "TypeError"
  /\ Len(get_direct_rules(Heap, call.self)) = 2
  /\ get_direct_rules(Heap, call.self)[1] # get_direct_rules(Heap, call.self)[2]
  /\ appended[call.self].direct = get_direct_rules(Heap, call.self)

-----------------------------------------------------------------------------
(* Two TypingQuirks and two Rules under every call that changes them *)

MaxIsoItems == 1   \* most list items the TypingQuirks of SpecIso hold together

IsoStrs == {PyStr(<<"a">>), PyInt(5)}
IsoLists ==
  {PyList(<< >>), PyList(<<PyStr(<<"a">>)>>)} \cup {PyList(<<PyRule(r)>>) : r \in DOMAIN rules}
IsoArgs == IsoStrs \cup {PyRule(r) : r \in DOMAIN rules} \cup IsoLists

IsoRoom(n) == SumLen(lists) + n <= MaxIsoItems

\* TypingQuirk() by itself
Construct ==
  /\ Len(quirks) < 2
  /\ LET r == TypingQuirk_init(Heap)
     IN /\ SetHeap(r.heap)
        /\ call' = [op |-> "TypingQuirk", self |-> r.ret, exc |-> r.exc]
        /\ appended' = Append(appended, NoneAppended)

\* create_quirk(name, color, aliases, direct, inverse)
CreateQuirk ==
  /\ Len(quirks) < 2
  /\ \E name \in IsoStrs, color \in IsoStrs, aliases \in IsoLists,
        direct \in IsoLists, inverse \in IsoLists :
       /\ IsoRoom(Len(aliases.items) + Len(direct.items) + Len(inverse.items))
       /\ LET r == create_quirk(Heap, name, color, aliases, direct, inverse)
          IN /\ SetHeap(r.heap)
             /\ call' = [op |-> "create_quirk",
                         self |-> IF r.exc = "none" THEN r.ret ELSE 0,
                         exc |-> r.exc]
             /\ appended' =
                  IF r.exc = "none"
                  THEN Append(appended,
                              [aliases |-> StrsOf(aliases.items),
                               direct |-> RulesOf(direct.items),
                               inverse |-> RulesOf(inverse.items)])
                  ELSE appended

SetQuirkName ==
  \E q \in DOMAIN quirks, name \in IsoStrs :
    LET r == set_quirk_name(Heap, q, name)
    IN /\ SetHeap(r.heap)
       /\ call' = [op |-> "set_quirk_name", self |-> q, exc |-> r.exc]
       /\ UNCHANGED appended

SetColor ==
  \E q \in DOMAIN quirks, color \in IsoStrs :
    LET r == set_color(Heap, q, color)
    IN /\ SetHeap(r.heap)
       /\ call' = [op |-> "set_color", self |-> q, exc |-> r.exc]
       /\ UNCHANGED appended

SetRegexp ==
  \E r \in DOMAIN rules, regexp \in IsoStrs :
    LET res == set_regexp(Heap, r, regexp)
    IN /\ SetHeap(res.heap)
       /\ call' = [op |-> "set_regexp", self |-> r, exc |-> res.exc]
       /\ UNCHANGED appended

SetReplacer ==
  \E r \in DOMAIN rules, regexp \in IsoStrs :
    LET res == set_replacer(Heap, r, regexp)
    IN /\ SetHeap(res.heap)
       /\ call' = [op |-> "set_replacer", self |-> r, exc |-> res.exc]
       /\ UNCHANGED appended

IsoAddAlias == IsoRoom(1) /\ AddAliasFrom(IsoArgs)
IsoAddDirectRule == IsoRoom(1) /\ AddDirectRuleFrom(IsoArgs)
IsoAddInverseRule == IsoRoom(1) /\ AddInverseRuleFrom(IsoArgs)

\* r1 = Rule(); r2 = Rule()
TwoRules == Rule_new(Rule_new(EmptyHeap).heap).heap

InitIso ==
  /\ HeapIs(TwoRules)
  /\ call = NoCall
  /\ appended = << >>

NextIso ==
  \/ Construct
  \/ CreateQuirk
  \/ SetQuirkName
  \/ SetColor
  \/ IsoAddAlias
  \/ IsoAddDirectRule
  \/ IsoAddInverseRule
  \/ SetRegexp
  \/ SetReplacer

SpecIso == InitIso /\ [][NextIso]_vars

ChangesAQuirk(op) ==
  IsAdder(op) \/ op \in {"set_quirk_name", "set_color", "create_quirk", "TypingQuirk"}

C10_QuirkFrame ==
  ChangesAQuirk(call'.op)
    => \A q \in DOMAIN quirks : q # call'.self => Contents(q)' = Contents(q)

C10_RuleFrame ==
  call'.op \in {"set_regexp", "set_replacer"}
    => \A r \in DOMAIN rules :
         r # call'.self => /\ get_regexp(Heap, r)' = get_regexp(Heap, r)
                           /\ get_replacer(Heap, r)' = get_replacer(Heap, r)

\* a Rule with no attribute of its own is one no setter has stored into
C10_Unset ==
  \A r \in DOMAIN rules :
    /\ "regexp" \notin DOMAIN rules[r] => get_regexp(Heap, r) = << >>
    /\ "replacewith" \notin DOMAIN rules[r] => get_replacer(Heap, r) = << >>

\* C10: a call that changes one TypingQuirk (set_quirk_name, set_color,
\* add_alias, add_direct_rule, add_inverse_rule, or building another one,
\* with create_quirk from the same arguments too) leaves what every other
\* TypingQuirk shows unchanged; set_regexp / set_replacer on one Rule leaves
\* what every other Rule returns unchanged; a Rule no setter was called on
\* returns "".
C10_InstanceIsolation == [] C10_Unset /\ [][C10_QuirkFrame /\ C10_RuleFrame]_vars

\* two TypingQuirks built by create_quirk, one Rule set and one not, and
\* the two objects of each kind differ after the call on one of them
C10_Witness ==
  /\ Len(quirks) = 2
  /\ Contents(1).name = <<"a">>
  /\ Contents(2).name = << >>
  /\ Contents(1).aliases # Contents(2).aliases
  /\ "regexp" \in DOMAIN rules[1]
  /\ rules[2] = << >>
  /\ call.op = "add_alias" /\ call.exc = "none"

-----------------------------------------------------------------------------
(* quirkify and dequirkify on a TypingQuirk with its rules in place *)

MaxRules == 2   \* most rules the direct and inverse lists hold together
MaxText == 2    \* longest text drawn from Chars

Chars == {"s", "a"}
Patterns == {<< >>, <<"s">>, <<".">>, <<"s", "a">>}
Repls == {<< >>, <<"2">>, <<"s", "s">>}
YesSir == <<"y", "e", "s", " ", "s", "i", "r">>
Texts == SeqsUpTo(Chars, MaxText) \cup {YesSir}

\* r1 = create_rule(p1, t1); r2 = create_rule(p2, t2);
\* q = create_quirk("a", "b", [], direct, inverse)
QuirkWithRules(p1, t1, p2, t2, direct, inverse) ==
  LET h1 == create_rule(EmptyHeap, PyStr(p1), PyStr(t1)).heap
      h2 == create_rule(h1, PyStr(p2), PyStr(t2)).heap
  IN create_quirk(h2, PyStr(<<"a">>), PyStr(<<"b">>), PyList(<< >>),
                  PyList([i \in DOMAIN direct |-> PyRule(direct[i])]),
                  PyList([i \in DOMAIN inverse |-> PyRule(inverse[i])])).heap

InitSub ==
  /\ \E p1 \in Patterns, p2 \in Patterns, t1 \in Repls, t2 \in Repls,
        direct \in SeqsUpTo(1..2, MaxRules), inverse \in SeqsUpTo(1..2, MaxRules) :
       /\ Len(direct) + Len(inverse) <= MaxRules
       /\ HeapIs(QuirkWithRules(p1, t1, p2, t2, direct, inverse))
       /\ appended = <<[aliases |-> << >>, direct |-> direct, inverse |-> inverse]>>
  /\ call = NoCall

Inputs == {PyStr(t) : t \in Texts} \cup {PyInt(5)}

\* quirkify and dequirkify leave the heap as it is: one call from each heap
\* reaches every result

Quirkify ==
  /\ call = NoCall
  /\ \E string \in Inputs :
    LET r == quirkify(Heap, 1, string)
    IN /\ call' = [op |-> "quirkify", self |-> 1, arg |-> string,
                   exc |-> r.exc, ret |-> r.ret]
       /\ UNCHANGED <<ruleClass, rules, quirks, lists, appended>>

Dequirkify ==
  /\ call = NoCall
  /\ \E string \in Inputs :
    LET r == dequirkify(Heap, 1, string)
    IN /\ call' = [op |-> "dequirkify", self |-> 1, arg |-> string,
                   exc |-> r.exc, ret |-> r.ret]
       /\ UNCHANGED <<ruleClass, rules, quirks, lists, appended>>

NextSub ==
  \/ Quirkify
  \/ Dequirkify

SpecSub == InitSub /\ [][NextSub]_vars

\* the (pattern, replacement) pairs of a list of Rule objects, as the getters
\* return them
RulePairs(rulelist) ==
  [i \in DOMAIN rulelist |->
     [regexp |-> get_regexp(Heap, rulelist[i]),
      replacewith |-> get_replacer(Heap, rulelist[i])]]

\* the left fold of the rules over s: the last rule applied to the fold of
\* the rules before it
RECURSIVE FoldRules(_, _)
FoldRules(pairs, s) ==
  IF pairs = << >> THEN s
  ELSE LET n == Len(pairs)
       IN re_sub(pairs[n].regexp, pairs[n].replacewith,
                 FoldRules(SubSeq(pairs, 1, n - 1), s))

\* the rule list a call reads
ListUsed(op) ==
  IF op = "quirkify" THEN get_direct_rules(Heap, 1) ELSE get_inverse_rules(Heap, 1)

\* C1: quirkify(s) is the left fold of the forward rules over s in list
\* order, dequirkify(s) the same fold over the inverse rules only, and s
\* itself when the list used is empty.
C1_FoldInListOrder ==
  call.op \in {"quirkify", "dequirkify"} /\ call.arg.type = "str"
    => /\ call.exc = "none"
       /\ call.ret = PyStr(FoldRules(RulePairs(ListUsed(call.op)), call.arg.s))
       /\ ListUsed(call.op) = << >> => call.ret = call.arg

\* quirkify ran two rules whose order matters, and the inverse list differs
C1_Witness ==
  /\ call.op = "quirkify"
  /\ call.exc = "none"
  /\ Len(get_direct_rules(Heap, 1)) = 2
  /\ get_inverse_rules(Heap, 1) = << >>
  /\ LET pairs == RulePairs(get_direct_rules(Heap, 1))
     IN /\ call.ret.s # FoldRules(<<pairs[2], pairs[1]>>, call.arg.s)
        /\ call.ret.s # call.arg.s

\* every occurrence of the characters p in s replaced by r, found from the
\* left and not overlapping, everything else kept in place
RECURSIVE ReplaceEvery(_, _, _)
ReplaceEvery(p, r, s) ==
  IF Len(s) < Len(p) THEN s
  ELSE IF SubSeq(s, 1, Len(p)) = p
  THEN r \o ReplaceEvery(p, r, SubSeq(s, Len(p) + 1, Len(s)))
  ELSE <<Head(s)>> \o ReplaceEvery(p, r, Tail(s))

RECURSIVE FoldReplaceEvery(_, _)
FoldReplaceEvery(pairs, s) ==
  IF pairs = << >> THEN s
  ELSE FoldReplaceEvery(Tail(pairs),
                        ReplaceEvery(Head(pairs).regexp, Head(pairs).replacewith, s))

\* a pattern of literal characters only (no metacharacter "."), not empty
LiteralPattern(pattern) ==
  pattern # << >> /\ \A i \in DOMAIN pattern : pattern[i] # "."

\* C7: when every rule of the list used has a pattern p of literal
\* characters and a literal replacement r, each application replaces every
\* occurrence of p in the current text by r, not only the first, and keeps
\* every other character in place and in order.
C7_GlobalSubstitution ==
  /\ call.op \in {"quirkify", "dequirkify"}
  /\ call.arg.type = "str"
  /\ \A i \in DOMAIN ListUsed(call.op) :
       LiteralPattern(RulePairs(ListUsed(call.op))[i].regexp)
  => call.ret = PyStr(FoldReplaceEvery(RulePairs(ListUsed(call.op)), call.arg.s))

\* pattern "s", replacement "2", on "yes sir": "ye2 2ir"
C7_Witness ==
  /\ call.op = "quirkify"
  /\ RulePairs(get_direct_rules(Heap, 1)) = <<[regexp |-> <<"s">>, replacewith |-> <<"2">>]>>
  /\ call.arg = PyStr(YesSir)
  /\ call.ret = PyStr(<<"y", "e", "2", " ", "2", "i", "r">>)

-----------------------------------------------------------------------------
(* Reading documents: create_quirks_list, create_quirks_dict,              *)
(* create_quirks_dict_from_quirks_list                                     *)

MaxNodes == 3   \* most elements of a document below its root

Attrs1(k, v) == k :> v
Attrs2(k1, v1, k2, v2) == (k1 :> v1) @@ (k2 :> v2)

RuleKinds ==
  {[tag |-> "rule", attrib |-> Attrs2("name", <<"n">>, "color", <<"c">>)],
   [tag |-> "rule", attrib |-> Attrs2("name", <<"m">>, "color", <<"c">>)],
   [tag |-> "rule", attrib |-> Attrs1("name", <<"n">>)],
   [tag |-> "rule", attrib |-> Attrs1("color", <<"c">>)]}

LeafKinds ==
  {[tag |-> "alias", attrib |-> Attrs1("value", <<"a">>)],
   [tag |-> "alias", attrib |-> Attrs1("value", <<"b">>)],
   [tag |-> "alias", attrib |-> << >>],
   [tag |-> "quirk", attrib |-> Attrs2("from", <<"x">>, "to", <<"y">>)],
   [tag |-> "dequirk", attrib |-> Attrs2("from", <<"y">>, "to", <<"x">>)]}

RootKinds ==
  {[tag |-> "document", attrib |-> << >>],
   [tag |-> "rule", attrib |-> Attrs2("name", <<"n">>, "color", <<"c">>)]}

Element(kind, depth) == [tag |-> kind.tag, attrib |-> kind.attrib, depth |-> depth]

\* the parent of element j: the nearest element before it one level up
Parent(tree, j) ==
  CHOOSE i \in 1..(j - 1) :
    /\ tree[i].depth = tree[j].depth - 1
    /\ \A k \in (i + 1)..(j - 1) : tree[k].depth >= tree[j].depth

\* the depths of n elements below the root, in document order: the first
\* is a child of the root, each other at most one level below the one before
DepthsBelowRoot(n) ==
  {depths \in [1..n -> 1..n] :
     \A i \in 1..n : depths[i] <= (IF i = 1 THEN 1 ELSE depths[i - 1] + 1)}

\* the element tree of a root and the elements below it
TreeOf(root, kinds, depths) ==
  <<Element(root, 0)>> \o [i \in DOMAIN kinds |-> Element(kinds[i], depths[i])]

\* every element below the root has the root or a rule element as its
\* parent (alias, quirk and dequirk elements are empty)
ParentsAreRules(tree) ==
  \A j \in 2..Len(tree) : tree[Parent(tree, j)].tag \in {"document", "rule"}

InitParse ==
  /\ HeapIs(EmptyHeap)
  /\ call = NoCall
  /\ appended = << >>

\* what the heap records of the add_* calls made while reading
AppendedIn(h) ==
  [q \in DOMAIN h.quirks |->
     [aliases |-> get_aliases(h, q), direct |-> get_direct_rules(h, q),
      inverse |-> get_inverse_rules(h, q)]]

\* a call that returned or raised r is complete
Completes(op, arg, r) ==
  /\ SetHeap(r.heap)
  /\ call' = [op |-> op, arg |-> arg, exc |-> r.exc, msg |-> r.msg, ret |-> r.ret]
  /\ appended' = AppendedIn(r.heap)

\* create_quirks_list(xmlstring) on the text of one of the documents of at
\* most MaxNodes elements below the root; one document is read in a behaviour
ParseList ==
  /\ call = NoCall
  /\ \E n \in 0..MaxNodes :
       \E depths \in DepthsBelowRoot(n), kinds \in [1..n -> RuleKinds \cup LeafKinds],
          root \in RootKinds :
         /\ ParentsAreRules(TreeOf(root, kinds, depths))
         /\ Completes("create_quirks_list", TreeOf(root, kinds, depths),
                      create_quirks_list(Heap, TreeOf(root, kinds, depths)))

\* create_quirks_dict(xmlstring) on the same documents
ParseDict ==
  /\ call = NoCall
  /\ \E n \in 0..MaxNodes :
       \E depths \in DepthsBelowRoot(n), kinds \in [1..n -> RuleKinds \cup LeafKinds],
          root \in RootKinds :
         /\ ParentsAreRules(TreeOf(root, kinds, depths))
         /\ Completes("create_quirks_dict", TreeOf(root, kinds, depths),
                      create_quirks_dict(Heap, TreeOf(root, kinds, depths)))

\* the file names given: a file that is there and one that is not
FileNames == {"doc.xml", "no_such_file.xml"}

\* create_quirks_list_from_file(filename): doc.xml holds one of the same
\* documents
ParseListFromFile ==
  /\ call = NoCall
  /\ \E n \in 0..MaxNodes :
       \E depths \in DepthsBelowRoot(n), kinds \in [1..n -> RuleKinds \cup LeafKinds],
          root \in RootKinds, filename \in FileNames :
         /\ ParentsAreRules(TreeOf(root, kinds, depths))
         /\ Completes("create_quirks_list_from_file",
                      [files |-> "doc.xml" :> TreeOf(root, kinds, depths),
                       filename |-> filename],
                      create_quirks_list_from_file(
                        Heap, "doc.xml" :> TreeOf(root, kinds, depths), filename))

\* create_quirks_dict_from_file(filename)
ParseDictFromFile ==
  /\ call = NoCall
  /\ \E n \in 0..MaxNodes :
       \E depths \in DepthsBelowRoot(n), kinds \in [1..n -> RuleKinds \cup LeafKinds],
          root \in RootKinds, filename \in FileNames :
         /\ ParentsAreRules(TreeOf(root, kinds, depths))
         /\ Completes("create_quirks_dict_from_file",
                      [files |-> "doc.xml" :> TreeOf(root, kinds, depths),
                       filename |-> filename],
                      create_quirks_dict_from_file(
                        Heap, "doc.xml" :> TreeOf(root, kinds, depths), filename))

\* create_quirks_dict_from_quirks_list on the list create_quirks_list
\* returned, or on that list with a value that is no TypingQuirk put after it
DictFromList ==
  /\ call.op = "create_quirks_list"
  /\ call.exc = "none"
  /\ \E quirklist \in {call.ret} \cup
                      {PyList(Append(call.ret.items, v)) :
                         v \in {PyInt(5), PyStr(<<"a">>), PyNone, PyList(<< >>)}} :
       Completes("create_quirks_dict_from_quirks_list", quirklist,
                 create_quirks_dict_from_quirks_list(Heap, quirklist))

NextParse ==
  \/ ParseList
  \/ ParseDict
  \/ ParseListFromFile
  \/ ParseDictFromFile
  \/ DictFromList

SpecParse == InitParse /\ [][NextParse]_vars

\* the rule elements of a document, in document order
RuleElements(tree) == InOrder({j \in DOMAIN tree : tree[j].tag = "rule"})

\* the children of element i with a tag, in child order
Children(tree, i, tag) ==
  InOrder({j \in DOMAIN tree : /\ j > i
                               /\ InSubtree(tree, i, j)
                               /\ tree[j].depth = tree[i].depth + 1
                               /\ tree[j].tag = tag})

\* what a TypingQuirk of heap h holds, its rules by their two strings
StructureIn(h, q) ==
  [name |-> get_name(h, q), color |-> get_color(h, q),
   aliases |-> get_aliases(h, q),
   direct |-> [k \in DOMAIN get_direct_rules(h, q) |->
                 [regexp |-> get_regexp(h, get_direct_rules(h, q)[k]),
                  replacewith |-> get_replacer(h, get_direct_rules(h, q)[k])]],
   inverse |-> [k \in DOMAIN get_inverse_rules(h, q) |->
                  [regexp |-> get_regexp(h, get_inverse_rules(h, q)[k]),
                   replacewith |-> get_replacer(h, get_inverse_rules(h, q)[k])]]]

Structure(q) == StructureIn(Heap, q)

\* what the claim says the TypingQuirk of rule element i holds
StructureOfChildren(tree, i) ==
  [name |-> tree[i].attrib["name"], color |-> tree[i].attrib["color"],
   aliases |-> [k \in DOMAIN Children(tree, i, "alias") |->
                  tree[Children(tree, i, "alias")[k]].attrib["value"]],
   direct |-> [k \in DOMAIN Children(tree, i, "quirk") |->
                 [regexp |-> tree[Children(tree, i, "quirk")[k]].attrib["from"],
                  replacewith |-> tree[Children(tree, i, "quirk")[k]].attrib["to"]]],
   inverse |-> [k \in DOMAIN Children(tree, i, "dequirk") |->
                  [regexp |-> tree[Children(tree, i, "dequirk")[k]].attrib["from"],
                   replacewith |-> tree[Children(tree, i, "dequirk")[k]].attrib["to"]]]]

\* C3: a parsed document yields one TypingQuirk per rule element, in
\* document order, and each holds exactly the aliases and rules of the alias /
\* quirk / dequirk children of its own rule element, in child order.
C3_OneQuirkPerRuleEntryOfItsChildren ==
  call.op = "create_quirks_list" /\ call.exc = "none"
    => /\ Len(call.ret.items) = Len(RuleElements(call.arg))
       /\ \A k \in DOMAIN call.ret.items :
            Structure(call.ret.items[k].id)
              = StructureOfChildren(call.arg, RuleElements(call.arg)[k])

\* C6: when a rule element of the document lacks name or color, parsing
\* raises KeyError and returns nothing, whatever came before that element.
C6_MissingFieldFailsWhole ==
  /\ call.op \in {"create_quirks_list", "create_quirks_dict"}
  /\ \E j \in DOMAIN call.arg :
       /\ call.arg[j].tag = "rule"
       /\ {"name", "color"} \ DOMAIN call.arg[j].attrib # {}
  => /\ call.exc = "KeyError"
     /\ call.ret = PyNone
     /\ Heap = EmptyHeap

\* a rule element with name and color, with an alias, came before the one
\* that lacks color
C6_Witness ==
  /\ call.op = "create_quirks_list"
  /\ Len(call.arg) = 4
  /\ call.arg[2].tag = "rule" /\ DOMAIN call.arg[2].attrib = {"name", "color"}
  /\ call.arg[3].tag = "alias" /\ DOMAIN call.arg[3].attrib = {"value"}
  /\ call.arg[4].tag = "rule" /\ DOMAIN call.arg[4].attrib = {"name"}
  /\ call.arg[4].depth = 1
  /\ call.exc = "KeyError" /\ call.msg = "color"

\* the TypingQuirks a dictionary was made of
FoldedList ==
  IF call.op = "create_quirks_dict"
  THEN create_quirks_list(EmptyHeap, call.arg).ret.items
  ELSE call.arg.items

\* the last position of FoldedList with a name
LastNamed(name) ==
  CHOOSE i \in DOMAIN FoldedList :
    /\ get_name(Heap, FoldedList[i].id) = name
    /\ \A j \in DOMAIN FoldedList : get_name(Heap, FoldedList[j].id) = name => j <= i

\* C5: the dictionary made of a sequence of TypingQuirks has exactly the
\* names of the sequence as keys, each key with the last TypingQuirk of that
\* name; create_quirks_dict gives what folding the list of create_quirks_list
\* gives.
C5_LastWriteWins ==
  /\ call.op \in {"create_quirks_dict", "create_quirks_dict_from_quirks_list"}
  /\ call.exc = "none"
  => /\ {call.ret.keys[k] : k \in DOMAIN call.ret.keys}
          = {get_name(Heap, FoldedList[i].id) : i \in DOMAIN FoldedList}
     /\ \A k, l \in DOMAIN call.ret.keys : call.ret.keys[k] = call.ret.keys[l] => k = l
     /\ \A k \in DOMAIN call.ret.keys :
          call.ret.vals[k] = FoldedList[LastNamed(call.ret.keys[k])]
     /\ call.op = "create_quirks_dict"
          => /\ Heap = create_quirks_list(EmptyHeap, call.arg).heap
             /\ call.ret = create_quirks_dict_from_quirks_list(
                             Heap, create_quirks_list(EmptyHeap, call.arg).ret).ret

\* two TypingQuirks of one name and different aliases, [A, B]: the name's
\* entry is B
C5_Witness ==
  /\ call.op = "create_quirks_dict_from_quirks_list"
  /\ call.exc = "none"
  /\ Len(call.arg.items) = 2
  /\ get_name(Heap, call.arg.items[1].id) = get_name(Heap, call.arg.items[2].id)
  /\ Structure(call.arg.items[1].id) # Structure(call.arg.items[2].id)
  /\ call.ret.keys = <<get_name(Heap, call.arg.items[1].id)>>
  /\ call.ret.vals = <<call.arg.items[2]>>

-----------------------------------------------------------------------------
(* SpecXml: Rules and TypingQuirks are created, and lists and dictionaries *)
(* of them, and of other values, are given to quirks_to_xml.               *)

MaxXmlRules == 1    \* most Rules created in SpecXml
MaxXmlQuirks == 2   \* most TypingQuirks created in SpecXml
MaxSource == 2      \* most elements of a source of quirks_to_xml

XmlStrs == {PyStr(<<"a">>), PyStr(<<"b">>)}
XmlRuleLists == {PyList(<< >>)} \cup {PyList(<<PyRule(r)>>) : r \in DOMAIN rules}
XmlKeys == [i \in 1..(MaxSource + 1) |-> <<"k", i>>]

\* the values a source may hold: the TypingQuirks and Rules there are, a string
XmlValues ==
  {PyQuirk(q) : q \in DOMAIN quirks} \cup {PyRule(r) : r \in DOMAIN rules}
    \cup {PyStr(<<"a">>)}

InitXml ==
  /\ HeapIs(EmptyHeap)
  /\ call = NoCall
  /\ appended = << >>

XmlCreateRule ==
  /\ Len(rules) < MaxXmlRules
  /\ \E regexp \in XmlStrs, replacewith \in XmlStrs :
       Completes("create_rule", [regexp |-> regexp, replacewith |-> replacewith],
                 create_rule(Heap, regexp, replacewith))

XmlCreateQuirk ==
  /\ Len(quirks) < MaxXmlQuirks
  /\ \E name \in XmlStrs, aliases \in {PyList(<< >>), PyList(<<PyStr(<<"a">>)>>)},
        direct \in XmlRuleLists, inverse \in XmlRuleLists :
       Completes("create_quirk",
                 [name |-> name, aliases |-> aliases, direct |-> direct, inverse |-> inverse],
                 create_quirk(Heap, name, PyStr(<<"c">>), aliases, direct, inverse))

\* quirks_to_xml(source, nice) for a list
ToXmlOfList ==
  \E items \in SeqsUpTo(XmlValues, MaxSource), nice \in BOOLEAN :
    Completes("quirks_to_xml", [source |-> PyList(items), nice |-> nice],
              quirks_to_xml(Heap, PyList(items), nice))

\* quirks_to_xml(source, nice) for a dictionary
ToXmlOfDict ==
  \E vals \in SeqsUpTo(XmlValues, MaxSource), nice \in BOOLEAN :
    Completes("quirks_to_xml",
              [source |-> PyDict(SubSeq(XmlKeys, 1, Len(vals)), vals), nice |-> nice],
              quirks_to_xml(Heap, PyDict(SubSeq(XmlKeys, 1, Len(vals)), vals), nice))

NextXml ==
  \/ XmlCreateRule
  \/ XmlCreateQuirk
  \/ ToXmlOfList
  \/ ToXmlOfDict

SpecXml == InitXml /\ [][NextXml]_vars

\* what each TypingQuirk of a sequence holds
StructuresIn(h, items) == [k \in DOMAIN items |-> StructureIn(h, items[k].id)]

\* C8: quirks_to_xml raises TypeError and returns no text when an element
\* of its source is not a TypingQuirk; when they all are, it does not raise
\* TypeError and returns the text of the document.
C8_TypeErrorIffNotOnlyQuirks ==
  call.op = "quirks_to_xml"
    => IF AllTypingQuirks(ValuesOf(call.arg.source))
       THEN call.exc # "TypeError" /\ call.ret # PyNone
       ELSE call.exc = "TypeError" /\ call.ret = PyNone

\* C2: the text quirks_to_xml returns for TypingQuirks, nice or not, reads
\* back with create_quirks_list as TypingQuirks of the same names, colors,
\* aliases and rules, in the same order.
C2_RoundTrip ==
  call.op = "quirks_to_xml" /\ AllTypingQuirks(ValuesOf(call.arg.source))
    => /\ call.exc = "none"
       /\ create_quirks_list(Heap, call.ret.doc).exc = "none"
       /\ StructuresIn(create_quirks_list(Heap, call.ret.doc).heap,
                       create_quirks_list(Heap, call.ret.doc).ret.items)
            = StructuresIn(Heap, ValuesOf(call.arg.source))

=============================================================================
